---- MODULE Spec2Model ----
(***************************************************************************)
(* Model of the dbbackup management command                                *)
(* (dbbackup/management/commands/dbbackup.py): Command.handle,             *)
(* Command._save_new_backup, Command._cleanup_old_backups and              *)
(* Command.write_local_file, with the collaborators they call (connector,  *)
(* utils.compress_file / utils.encrypt_file, dbcommands, storage).         *)
(*                                                                         *)
(* A filename is a record [name, datestr, ext]:                            *)
(*   name    the database name the filename starts with,                   *)
(*   datestr the timestamp text <<month, day>> embedded in the name,       *)
(*   ext     the chain of suffixes appended by the transform stages.       *)
(* A temporary stream is a record [db, stages]: the database it was dumped *)
(* from and the stages applied to the raw dump, in order of application.   *)
(***************************************************************************)
EXTENDS Integers, Sequences, FiniteSets, TLC

\* ------------------------------------------------------------------ bounds
MaxStored == 2      \* files already in the storage when the run starts
MaxKeep == 2        \* largest DBBACKUP_CLEANUP_KEEP tried
MinKeep == 0 - 1    \* smallest DBBACKUP_CLEANUP_KEEP tried (misconfigured)

\* ------------------------------------------------------- configuration
\* dbbackup_settings.DATABASES: the databases of a run without --database.
DATABASES == <<"a", "b">>

\* Timestamp texts found in stored filenames.  <<1, 32>> has the shape of a
\* timestamp but names no day of the calendar.
DateStrings == {<<1, 15>>, <<2, 1>>, <<2, 20>>, <<1, 32>>}

\* The clock read by dbcommands.filename when the run names its new backup.
NowStrings == {<<3, 1>>, <<3, 5>>}

\* Filenames other programs or earlier runs left in the storage.
StoredUniverse ==
    {[name |-> "a", datestr |-> d, ext |-> <<>>] : d \in DateStrings}
        \cup {[name |-> "b", datestr |-> <<1, 15>>, ext |-> <<>>],
              [name |-> "foreign", datestr |-> <<>>, ext |-> <<>>]}

\* The value of --output-filename when given: a name chosen by the user.
OverrideFile(n) == [name |-> n, datestr |-> <<>>, ext |-> <<>>]

NoStream == [db |-> "", stages |-> <<>>]

VARIABLES
    options,     \* the command's options and settings (handle, lines 42-51)
    now,         \* the timestamp dbcommands.filename embeds in new names
    storage,     \* the files held by the storage backend
    local,       \* streams copied to the local path by write_local_file
    pc,          \* position of handle in the body of its loop
    dbi,         \* index in database_keys of the database being processed
    filename,    \* _save_new_backup's local `filename`
    outputfile,  \* _save_new_backup's local `outputfile`
    open,        \* temporary streams created and not released
    listed,      \* per database: filepaths after filter_filepaths
    todo,        \* the rest of sorted(filepaths[0:-clean_keep]) to visit
    error,       \* the exception that ended the run, "" if none
    log          \* every call made on a collaborator, in order

vars == <<options, now, storage, local, pc, dbi, filename, outputfile,
          open, listed, todo, error, log>>

\* ------------------------------------------------------- pure helpers
RECURSIVE Orderings(_)
Orderings(S) ==
    IF S = {} THEN {<<>>}
    ELSE UNION {{<<x>> \o s : s \in Orderings(S \ {x})} : x \in S}

Range(s) == {s[i] : i \in 1..Len(s)}

\* handle, line 53.
database_keys ==
    IF options.database # "" THEN <<options.database>> ELSE DATABASES

database == database_keys[dbi]

\* dbcommands.filename(servername): name, timestamp, no transform suffix.
dbcommands_filename(db) == [name |-> db, datestr |-> now, ext |-> <<>>]

\* dbcommands.filter_filepaths: keeps, in order, the entries the naming
\* pattern of the database recognizes.
NameMatches(f, db) == f.name = db /\ Len(f.datestr) = 2
filter_filepaths(filepaths, db) ==
    SelectSeq(filepaths, LAMBDA f : NameMatches(f, db))

\* storage.list_directory: the stored files, in an order the backend picks.
list_directory == Orderings(storage)

\* Python's seq[0:-keep].
SliceNoNegation(filepaths, keep) ==
    SubSeq(filepaths, 1, IF keep < Len(filepaths) THEN keep ELSE Len(filepaths))
Slice(filepaths, keep) ==
    LET n == Len(filepaths)
        stop == IF keep > 0 THEN (IF n - keep > 0 THEN n - keep ELSE 0)
                ELSE IF keep = 0 THEN 0
                ELSE (IF 0 - keep < n THEN 0 - keep ELSE n)
    IN  SubSeq(filepaths, 1, stop)

\* Order of the suffix chains as Python compares the filename strings:
\* "" < ".gpg" < ".gz" < ".gz.gpg".
ExtRank(ext) ==
    IF ext = <<>> THEN 0
    ELSE IF ext = <<".gpg">> THEN 1
    ELSE IF ext = <<".gz">> THEN 2
    ELSE 3

\* sorted(): filenames of one database compare by timestamp text, then suffix.
PathLess(f, g) ==
    \/ f.datestr[1] < g.datestr[1]
    \/ f.datestr[1] = g.datestr[1] /\ f.datestr[2] < g.datestr[2]
    \/ f.datestr = g.datestr /\ ExtRank(f.ext) < ExtRank(g.ext)
sorted(filepaths) == SortSeq(filepaths, PathLess)

\* datetime.strptime(datestr, DATE_FORMAT): raises ValueError unless the
\* text names a day of the calendar.
DaysIn(m) == IF m = 2 THEN 28 ELSE IF m \in {4, 6, 9, 11} THEN 30 ELSE 31
strptime_ok(datestr) ==
    /\ Len(datestr) = 2
    /\ datestr[1] \in 1..12
    /\ datestr[2] \in 1..DaysIn(datestr[1])
strptime(datestr) == [month |-> datestr[1], day |-> datestr[2]]

\* Line 109: int(dateTime.strftime("%d")) != 1.
NotFirstOfMonthByMonth(dateTime) == dateTime.month # 1
NotFirstOfMonth(dateTime) == dateTime.day # 1

\* Lines 78-83: the stages applied, in order, under the options.
StagesReversed ==
    (IF options.encrypt THEN <<"encrypt">> ELSE <<>>)
        \o (IF options.compress THEN <<"compress">> ELSE <<>>)
Stages ==
    (IF options.compress THEN <<"compress">> ELSE <<>>)
        \o (IF options.encrypt THEN <<"encrypt">> ELSE <<>>)

\* utils.compress_file / utils.encrypt_file: a fresh stream holding the
\* transformed input, and the filename with the stage's suffix appended.
Suffix(stage) == IF stage = "compress" THEN ".gz" ELSE ".gpg"
apply_stage(stage, stream, fname) ==
    <<[stream EXCEPT !.stages = Append(@, stage)],
      [fname EXCEPT !.ext = Append(@, Suffix(stage))]>>

\* Where _save_new_backup goes once `done` stages have been applied.
AfterStage(done) == IF done < Len(Stages) THEN "transform" ELSE "write"

\* handle, lines 62-63: the first step of the loop body.
FirstStepCleanup == "list"
FirstStep == "dump"

\* One call on a collaborator: the operation, the filename and the stream
\* it was given, and whether it returned (ok) or raised.
Event(op, file, stream, ok) ==
    [db |-> database, op |-> op, file |-> file, stream |-> stream, ok |-> ok]

\* ------------------------------------------------------------- Init
Init ==
    /\ options \in [clean : BOOLEAN,
                    clean_keep : MinKeep..MaxKeep,
                    database : {"", "b"},
                    compress : BOOLEAN,
                    encrypt : BOOLEAN,
                    filename : {"", "custom"},
                    path : {"", "/out"}]
    /\ now \in NowStrings
    /\ storage \in {S \in SUBSET StoredUniverse : Cardinality(S) <= MaxStored}
    /\ local = {}
    /\ pc = FirstStep
    /\ dbi = 1
    /\ filename = OverrideFile("")
    /\ outputfile = NoStream
    /\ open = {}
    /\ listed = [d \in Range(DATABASES) |-> <<>>]
    /\ todo = <<>>
    /\ error = ""
    /\ log = <<>>

\* ------------------------------------------------------------ control
\* An exception leaves handle: line 67 for a StorageError (re-raised as
\* CommandError), uncaught for every other exception.
Raise(exc) ==
    /\ pc' = "failed"
    /\ error' = exc

\* End of the loop body, lines 54-67: next database or end of handle.
NextDatabase ==
    /\ error' = error
    /\ IF dbi < Len(database_keys)
       THEN dbi' = dbi + 1 /\ pc' = FirstStep
       ELSE dbi' = dbi /\ pc' = "done"

\* Return of _save_new_backup to handle, lines 63-65.
AfterSave ==
    IF options.clean
    THEN pc' = "list" /\ dbi' = dbi /\ error' = error
    ELSE NextDatabase

\* ------------------------------------------------------------ actions
\* Lines 75-77: name the backup and ask the connector for the dump.
CreateDump ==
    /\ pc = "dump"
    /\ filename' = dbcommands_filename(database)
    /\ \/ /\ outputfile' = [db |-> database, stages |-> <<>>]
          /\ open' = open \cup {outputfile'}
          /\ log' = Append(log, Event("create_dump", filename', outputfile', TRUE))
          /\ pc' = AfterStage(0)
          /\ error' = error
       \/ /\ log' = Append(log, Event("create_dump", filename', NoStream, FALSE))
          /\ Raise("DumpFailed")
          /\ UNCHANGED <<outputfile, open>>
    /\ UNCHANGED <<options, now, storage, local, dbi, listed, todo>>

\* Lines 78-80: utils.compress_file(outputfile, filename).
Compress ==
    /\ pc = "transform"
    /\ Stages[Len(outputfile.stages) + 1] = "compress"
    /\ \/ /\ outputfile' = apply_stage("compress", outputfile, filename)[1]
          /\ filename' = apply_stage("compress", outputfile, filename)[2]
          /\ open' = open \cup {outputfile'}
          /\ log' = Append(log, Event("compress", filename', outputfile', TRUE))
          /\ pc' = AfterStage(Len(outputfile'.stages))
          /\ error' = error
       \/ /\ log' = Append(log, Event("compress", filename, outputfile, FALSE))
          /\ Raise("TransformFailed")
          /\ UNCHANGED <<outputfile, filename, open>>
    /\ UNCHANGED <<options, now, storage, local, dbi, listed, todo>>

\* Lines 81-83: utils.encrypt_file(outputfile, filename).
Encrypt ==
    /\ pc = "transform"
    /\ Stages[Len(outputfile.stages) + 1] = "encrypt"
    /\ \/ /\ outputfile' = apply_stage("encrypt", outputfile, filename)[1]
          /\ filename' = apply_stage("encrypt", outputfile, filename)[2]
          /\ open' = open \cup {outputfile'}
          /\ log' = Append(log, Event("encrypt", filename', outputfile', TRUE))
          /\ pc' = AfterStage(Len(outputfile'.stages))
          /\ error' = error
       \/ /\ log' = Append(log, Event("encrypt", filename, outputfile, FALSE))
          /\ Raise("TransformFailed")
          /\ UNCHANGED <<outputfile, filename, open>>
    /\ UNCHANGED <<options, now, storage, local, dbi, listed, todo>>

\* Line 84: the explicit output filename wins over the derived one.
FinalFilename ==
    IF options.filename # "" THEN OverrideFile(options.filename) ELSE filename

\* Lines 88-92: storage.write_file(outputfile, filename).
WriteFile ==
    /\ pc = "write"
    /\ options.path = ""
    /\ \/ /\ storage' = storage \cup {FinalFilename}
          /\ log' = Append(log, Event("write_file", FinalFilename, outputfile, TRUE))
          /\ outputfile' = NoStream
          /\ AfterSave
       \/ /\ log' = Append(log, Event("write_file", FinalFilename, outputfile, FALSE))
          /\ Raise("StorageError")
          /\ UNCHANGED <<storage, outputfile, dbi>>
    /\ UNCHANGED <<options, now, local, filename, open, listed, todo>>

\* Lines 93-95 and 115-119: write_local_file(outputfile, path).
WriteLocalFile ==
    /\ pc = "write"
    /\ options.path # ""
    /\ \/ /\ local' = local \cup {outputfile}
          /\ log' = Append(log, Event("write_local_file", FinalFilename, outputfile, TRUE))
          /\ outputfile' = NoStream
          /\ AfterSave
       \/ /\ log' = Append(log, Event("write_local_file", FinalFilename, outputfile, FALSE))
          /\ Raise("IOError")
          /\ UNCHANGED <<local, outputfile, dbi>>
    /\ UNCHANGED <<options, now, storage, filename, open, listed, todo>>

\* End of the for loop of line 105 when nothing is left to visit.
AfterEntry(rest) ==
    IF rest = <<>>
    THEN NextDatabase
    ELSE pc' = "cleanup" /\ dbi' = dbi /\ error' = error

\* Lines 103-105: list, filter, slice, sort.
ListBackups ==
    /\ pc = "list"
    /\ \E l \in list_directory :
          LET filepaths == filter_filepaths(l, database)
          IN  /\ listed' = [listed EXCEPT ![database] = filepaths]
              /\ todo' = sorted(Slice(filepaths, options.clean_keep))
    /\ log' = Append(log, Event("list_directory", OverrideFile(""), NoStream, TRUE))
    /\ AfterEntry(todo')
    /\ UNCHANGED <<options, now, storage, local, filename, outputfile, open>>

\* Lines 106-108 on a timestamp text strptime rejects: ValueError.
CleanupParseFail ==
    /\ pc = "cleanup"
    /\ ~strptime_ok(Head(todo).datestr)
    /\ Raise("ValueError")
    /\ UNCHANGED <<options, now, storage, local, dbi, filename, outputfile,
                   open, listed, todo, log>>

\* Lines 106-109 on a first-of-month backup: kept, next entry.
CleanupKeep ==
    /\ pc = "cleanup"
    /\ strptime_ok(Head(todo).datestr)
    /\ ~NotFirstOfMonth(strptime(Head(todo).datestr))
    /\ todo' = Tail(todo)
    /\ AfterEntry(todo')
    /\ UNCHANGED <<options, now, storage, local, filename, outputfile,
                   open, listed, log>>

\* Lines 106-112 otherwise: storage.delete_file(filepath).
CleanupDelete ==
    /\ pc = "cleanup"
    /\ strptime_ok(Head(todo).datestr)
    /\ NotFirstOfMonth(strptime(Head(todo).datestr))
    /\ \/ /\ storage' = storage \ {Head(todo)}
          /\ log' = Append(log, Event("delete_file", Head(todo), NoStream, TRUE))
          /\ todo' = Tail(todo)
          /\ AfterEntry(todo')
       \/ /\ log' = Append(log, Event("delete_file", Head(todo), NoStream, FALSE))
          /\ Raise("StorageError")
          /\ UNCHANGED <<storage, todo, dbi>>
    /\ UNCHANGED <<options, now, local, filename, outputfile, open, listed>>

\* The runtime finalizes the temporary streams no variable refers to any
\* more.  The command never closes a stream itself; when, and whether, the
\* unreferenced ones are finalized is up to the interpreter.
Collect ==
    /\ open \ {outputfile} # {}
    /\ open' = open \cap {outputfile}
    /\ UNCHANGED <<options, now, storage, local, pc, dbi, filename,
                   outputfile, listed, todo, error, log>>

Next ==
    \/ CreateDump
    \/ Compress
    \/ Encrypt
    \/ WriteFile
    \/ WriteLocalFile
    \/ ListBackups
    \/ CleanupParseFail
    \/ CleanupKeep
    \/ CleanupDelete

\* The command alone: no temporary stream is ever finalized.
Spec == Init /\ [][Next]_vars

\* The command under an interpreter that may finalize unreferenced streams.
NextRuntime ==
    \/ CreateDump
    \/ Compress
    \/ Encrypt
    \/ WriteFile
    \/ WriteLocalFile
    \/ ListBackups
    \/ CleanupParseFail
    \/ CleanupKeep
    \/ CleanupDelete
    \/ Collect

SpecRuntime == Init /\ [][NextRuntime]_vars

\* ------------------------------------------------------------ properties
Keep == options.clean_keep
Ended == pc \in {"done", "failed"}
Events(d, op) == {i \in 1..Len(log) : log[i].db = d /\ log[i].op = op}
DbIndex(d) == CHOOSE j \in 1..Len(database_keys) : database_keys[j] = d

\* t1 is an earlier timestamp than t2.
Earlier(t1, t2) == t1[1] < t2[1] \/ (t1[1] = t2[1] /\ t1[2] < t2[2])

\* The listed backups of d with a timestamp later than f's.
NewerThan(f, d) ==
    {g \in Range(listed[d]) :
        strptime_ok(g.datestr) /\ Earlier(f.datestr, g.datestr)}

\* The entries the cleanup pass of d visits, and those among them whose
\* timestamp parses and is no first of a month.
Candidates(d) == Range(Slice(listed[d], Keep))
Eligible(d) ==
    {f \in Candidates(d) :
        strptime_ok(f.datestr) /\ strptime(f.datestr).day # 1}
DeleteCalled(d, f) == \E i \in Events(d, "delete_file") : log[i].file = f

\* C1: with a keep count K >= 1, delete is never called on one of the K
\* listed backups of the database with the most recent timestamps, that is,
\* on a backup with fewer than K listed backups newer than it.
C1_ProtectedTailNeverDeleted ==
    Keep >= 1 =>
        \A i \in 1..Len(log) :
            log[i].op = "delete_file" =>
                Cardinality(NewerThan(log[i].file, log[i].db)) >= Keep

\* C2: delete is never called on a backup whose timestamp falls on day 1 of
\* its month, whatever the keep count and the order of the listing.
C2_FirstOfMonthNeverDeleted ==
    \A i \in 1..Len(log) :
        log[i].op = "delete_file" =>
            /\ strptime_ok(log[i].file.datestr)
            /\ strptime(log[i].file.datestr).day # 1

\* A first-of-month backup was among the entries visited, it is still
\* stored, and another entry of the same pass was deleted.
C2_Witness ==
    /\ pc = "done"
    /\ \E d \in Range(database_keys) :
          /\ \E f \in Candidates(d) :
                /\ strptime_ok(f.datestr)
                /\ strptime(f.datestr).day = 1
                /\ f \in storage
          /\ \E i \in Events(d, "delete_file") : log[i].ok

\* C3: when the filtered listing of a database holds N <= K backups, K >= 1,
\* the cleanup pass has nothing to visit and calls delete on nothing.
C3_FewBackupsDeleteNothing ==
    \A d \in Range(database_keys) :
        (Keep >= 1 /\ Len(listed[d]) <= Keep) =>
            /\ Events(d, "delete_file") = {}
            /\ (d = database /\ pc = "cleanup") => todo = <<>>

\* A database was listed with 2 <= N <= K backups and the run went on.
C3_Witness ==
    /\ pc = "done"
    /\ Keep >= 1
    /\ \E d \in Range(database_keys) :
          /\ Events(d, "list_directory") # {}
          /\ Len(listed[d]) >= 2
          /\ Len(listed[d]) <= Keep

\* C4: in a run that cleans up under a keep count of 0 or less, no call
\* (write, list or delete) reaches the storage.
C4_InvalidKeepRejected ==
    (options.clean /\ Keep < 1) =>
        \A i \in 1..Len(log) :
            log[i].op \notin {"write_file", "list_directory", "delete_file"}

\* C5: when the dump, a transform or the write of a database failed, every
\* database configured after it has been attempted by the end of the run.
C5_LaterDatabasesStillAttempted ==
    (/\ Ended
     /\ \E i \in 1..Len(log) :
           /\ ~log[i].ok
           /\ log[i].op \in {"create_dump", "compress", "encrypt", "write_file"})
        => \A d \in Range(database_keys) : Events(d, "create_dump") # {}

\* C6: a listing with an entry whose timestamp does not parse does not abort
\* the cleanup pass: unless a delete failed, by the end of the run delete
\* has been called on every eligible entry of the pass.
C6_MalformedEntryDoesNotAbort ==
    \A d \in Range(database_keys) :
        (/\ Ended
         /\ Events(d, "list_directory") # {}
         /\ \E g \in Range(listed[d]) : ~strptime_ok(g.datestr)
         /\ \A i \in Events(d, "delete_file") : log[i].ok)
            => \A f \in Eligible(d) : DeleteCalled(d, f)

\* C7: when a delete of the cleanup pass failed, delete has still been
\* called on every eligible entry of the pass by the end of the run.
C7_DeleteFailureDoesNotStopCleanup ==
    \A d \in Range(database_keys) :
        (/\ Ended
         /\ \E i \in Events(d, "delete_file") : ~log[i].ok)
            => \A f \in Eligible(d) : DeleteCalled(d, f)

IsWrite(e) == e.op \in {"write_file", "write_local_file"}

\* C8 as stated: with compress and encrypt, the filename handed to the write
\* of the storage ends with the compression suffix then the encryption one.
C8_WrittenNameEndsGzGpg ==
    (options.compress /\ options.encrypt) =>
        \A i \in 1..Len(log) :
            log[i].op = "write_file" => log[i].file.ext = <<".gz", ".gpg">>

\* C8 amended: with compress and encrypt, the stream written is the raw dump
\* compressed and then encrypted, and the filename handed to the write of
\* the storage is the explicit output filename when one is given, else the
\* derived name ending with the compression suffix then the encryption one.
C8_CompressThenEncrypt ==
    (options.compress /\ options.encrypt) =>
        \A i \in 1..Len(log) :
            IsWrite(log[i]) =>
                /\ log[i].stream.stages = <<"compress", "encrypt">>
                /\ log[i].op = "write_file" =>
                      log[i].file =
                          IF options.filename # ""
                          THEN OverrideFile(options.filename)
                          ELSE [name |-> log[i].db, datestr |-> now,
                                ext |-> <<".gz", ".gpg">>]

\* A compressed and encrypted backup was written to the storage under its
\* derived name.
C8_Witness ==
    /\ options.compress /\ options.encrypt /\ options.filename = ""
    /\ \E i \in 1..Len(log) : log[i].op = "write_file" /\ log[i].ok

StepRank(op) ==
    CASE op = "create_dump" -> 1
      [] op = "compress" -> 2
      [] op = "encrypt" -> 3
      [] op \in {"write_file", "write_local_file"} -> 4
      [] op = "list_directory" -> 5
      [] op = "delete_file" -> 6

\* C9: databases are processed one after another in configured order; the
\* calls for one database come in the order dump, compress, encrypt, write,
\* list, delete, each but delete at most once; a call follows only calls
\* that returned; the cleanup of a database follows its successful write.
C9_SequentialPerDatabase ==
    /\ \A i, j \in 1..Len(log) :
          i < j =>
              /\ log[i].ok
              /\ DbIndex(log[i].db) <= DbIndex(log[j].db)
              /\ log[i].db = log[j].db =>
                    \/ StepRank(log[i].op) < StepRank(log[j].op)
                    \/ log[i].op = "delete_file" /\ log[j].op = "delete_file"
    /\ \A j \in 1..Len(log) :
          StepRank(log[j].op) >= 5 =>
              \E i \in 1..(j - 1) :
                  /\ log[i].db = log[j].db
                  /\ IsWrite(log[i])
                  /\ log[i].ok
    /\ \A j \in 1..Len(log) :
          StepRank(log[j].op) \in 2..4 =>
              \E i \in 1..(j - 1) :
                  log[i].db = log[j].db /\ log[i].op = "create_dump"

\* Two databases were each dumped, compressed, written and cleaned up with
\* a deletion.
C9_Witness ==
    /\ pc = "done"
    /\ Len(database_keys) = 2
    /\ \A d \in Range(database_keys) :
          /\ Events(d, "compress") # {}
          /\ \E i \in Events(d, "delete_file") : log[i].ok

\* C10: once the processing of a database has ended, with or without an
\* error, no temporary stream created for it is still unreleased.
C10_TemporaryStreamsReleased ==
    \A s \in open : s.db = database /\ ~Ended

====
